---- MODULE Spec2Model ----
(***************************************************************************)
(* Model of tfts/datasets/get_data.py: the dataset entry point get_data,   *)
(* the sine generator get_sine, the air-passenger window generator         *)
(* get_air_passengers and the stock fetcher get_stock_data.                *)
(*                                                                         *)
(* Each call is one action.  An action computes the whole function: the    *)
(* arrays it builds, the split, the value returned or the exception        *)
(* raised.  numpy arrays are records [shape, data] where data is a nested  *)
(* sequence, so that an empty list turns into an array of shape (0,) as    *)
(* numpy does.  A sine sample is the token [ch, phase, step]; a normalised  *)
(* series value is the rational num / den together with the row it came    *)
(* from.  test_size is a dyadic rational ts / TestDen; on such values the  *)
(* float arithmetic of the split index is exact.  rng is the state of the  *)
(* process-wide generator behind random.random(), the one piece of state   *)
(* that outlives a call.                                                   *)
(***************************************************************************)
EXTENDS Integers, Sequences, FiniteSets, TLC

VARIABLES pc, rng, call, trace, x_array, y_array, result, draws, fetches, downloads

vars == <<pc, rng, call, trace, x_array, y_array, result, draws, fetches, downloads>>

(* ------------------------------ constants ------------------------------ *)

\* nrows=144 of pd.read_csv
NRows == 144
\* n_examples: int = 100, the default get_data relies on
DefaultNExamples == 100

(* -------------------------------- bounds ------------------------------- *)

\* train_sequence_length and predict_sequence_length range over 0..MaxLen
MaxLen == 3
\* n_examples of a direct get_sine call ranges over 0..MaxExamples
MaxExamples == 5
\* test_size ranges over multiples of 1 / 2^TestExp
TestExp == 2
\* number of states of the pseudo-random generator
RandMod == 2
\* rows of a provider result range over 0..MaxRows
MaxRows == 2

TestDen == 2 ^ TestExp

Lengths == 0 .. MaxLen
\* a length at which the 144-row series runs out of windows
LongLengths == {NRows - 2}
\* test_size, in units of 1/TestDen: from one step below 0 to one step above 1
TestSizes == -1 .. (TestDen + 1)
Names == {"sine", "airpassengers", "unsupported"}
Tickers == {"NVDA", "NONE"}

(* ------------------------------- python -------------------------------- *)

Min(a, b) == IF a < b THEN a ELSE b
Max(a, b) == IF a > b THEN a ELSE b

\* a slice bound i of a sequence of length n, as Python normalises it
SliceIndex(i, n) == IF i < 0 THEN Max(i + n, 0) ELSE Min(i, n)

\* s[start:stop]
SliceRange(s, start, stop) ==
    LET lo == SliceIndex(start, Len(s))
        hi == SliceIndex(stop, Len(s))
    IN  IF lo < hi THEN SubSeq(s, lo + 1, hi) ELSE <<>>

\* s[::-1]
Reversed(s) == [i \in 1 .. Len(s) |-> s[Len(s) + 1 - i]]

\* int(a / b) for b > 0: truncation toward zero
PyInt(a, b) == IF a >= 0 THEN a \div b ELSE -((-a) \div b)

(* -------------------------------- numpy -------------------------------- *)

NoArray == [shape |-> <<>>, data |-> <<>>]

\* np.array / np.linspace result of one dimension
Array1(s) == [shape |-> <<Len(s)>>, data |-> s]

\* np.array(list of equally shaped arrays); np.array([]) has shape (0,)
NpArray(list) ==
    IF list = <<>> THEN [shape |-> <<0>>, data |-> <<>>]
    ELSE [shape |-> <<Len(list)>> \o list[1].shape,
          data  |-> [i \in 1 .. Len(list) |-> list[i].data]]

\* a.T of a two-dimensional array
Transpose(a) ==
    [shape |-> <<a.shape[2], a.shape[1]>>,
     data  |-> [j \in 1 .. a.shape[2] |-> [i \in 1 .. a.shape[1] |-> a.data[i][j]]]]

\* a[start:stop] of a one-dimensional array
Slice1(a, start, stop) == Array1(SliceRange(a.data, start, stop))

\* a[start:stop] along the first axis
RowSlice(a, start, stop) ==
    LET rows == SliceRange(a.data, start, stop)
    IN  [shape |-> <<Len(rows)>> \o Tail(a.shape), data |-> rows]

\* a[:stop] and a[start:] along the first axis
RowsTo(a, stop) == RowSlice(a, 0, stop)
RowsFrom(a, start) == RowSlice(a, start, a.shape[1])

\* whether a[:, :, lo:hi] is accepted: it needs three dimensions
CanIndex3(a) == Len(a.shape) >= 3

\* a[:, :, lo:hi] of a three-dimensional array
LastAxisSlice(a, lo, hi) ==
    [shape |-> <<a.shape[1], a.shape[2],
                 Len(SliceRange([k \in 1 .. a.shape[3] |-> k], lo, hi))>>,
     data  |-> [i \in 1 .. a.shape[1] |->
                  [j \in 1 .. a.shape[2] |-> SliceRange(a.data[i][j], lo, hi)]]]

\* np.roll(a, shift, axis=0): row i of the result is row i - shift of a
Roll(a, shift) ==
    LET n == a.shape[1]
    IN  [shape |-> a.shape,
         data  |-> [i \in 1 .. n |-> a.data[((i - 1 - shift) % n) + 1]]]

\* np.stack(list, axis=1) of arrays of shape (n, 1): shape (n, Len(list), 1)
Stack1(list) ==
    LET n == list[1].shape[1]
    IN  [shape |-> <<n, Len(list)>> \o Tail(list[1].shape),
         data  |-> [i \in 1 .. n |-> [j \in 1 .. Len(list) |-> list[j].data[i]]]]

\* a[start:stop, ::-1, :]
RowSliceReversed(a, start, stop) ==
    LET rows == SliceRange(a.data, start, stop)
    IN  [shape |-> <<Len(rows)>> \o Tail(a.shape),
         data  |-> [i \in 1 .. Len(rows) |-> Reversed(rows[i])]]

(* ------------------------------ outcomes ------------------------------- *)

NoResult == [kind |-> "none", exc |-> "", msg |-> <<>>, form |-> "", value |-> <<>>]

Raise(exc, msg) ==
    [kind |-> "raise", exc |-> exc, msg |-> msg, form |-> "", value |-> <<>>]

Return(form, value) ==
    [kind |-> "return", exc |-> "", msg |-> <<>>, form |-> form, value |-> value]

(* ------------------------------ get_sine ------------------------------- *)

\* random.random(): the value drawn in generator state s, and the next state
RandomValue(s) == s
RandomNext(s) == (s + 1) % RandMod

\* the generator state after i draws from state s: RandomNext applied i times
RngAfter(s, i) == (s + i) % RandMod

\* sig1 / sig2: np.sin / np.cos of np.linspace(rand, 3 pi + rand, num)
Signal(ch, rand, num) ==
    Array1([i \in 1 .. num |-> [ch |-> ch, phase |-> rand, step |-> i - 1]])

\* one pass of the loop body: the pair (x_.T, y_.T) appended to x and y
SineExample(rand, L, P) ==
    LET sig1 == Signal("sin", rand, L + P)
        sig2 == Signal("cos", rand, L + P)
        x1 == Slice1(sig1, 0, L)
        y1 == Slice1(sig1, L, L + P)
        x2 == Slice1(sig2, 0, L)
        y2 == Slice1(sig2, L, L + P)
        x_ == NpArray(<<x1, x2>>)
        y_ == NpArray(<<y1, y2>>)
    IN  [x |-> Transpose(x_), y |-> Transpose(y_)]

\* mutant: both channels kept
FirstChannel_KeepBoth(a) == LastAxisSlice(a, 0, 2)

\* [:, :, 0:1]
FirstChannel(a) == LastAxisSlice(a, 0, 1)

\* mutant: a split also at test_size = 0
HasSplit_Inclusive(ts) == ts >= 0

\* if test_size > 0
HasSplit(ts) == ts > 0

\* mutant: the split index taken from test_size instead of 1 - test_size
SplitIndex_TestShare(n, ts) == PyInt(n * ts, TestDen)

\* slice = int(n * (1 - test_size)), test_size = ts / TestDen
SplitIndex(n, ts) == PyInt(n * (TestDen - ts), TestDen)

\* the return statements of get_sine
SineSplit(xa, ya, n, ts) ==
    IF HasSplit(ts)
    THEN LET slice == SplitIndex(n, ts)
         IN  Return("split", << <<RowsTo(xa, slice), RowsTo(ya, slice)>>,
                                <<RowsFrom(xa, slice), RowsFrom(ya, slice)>> >>)
    ELSE Return("pair", <<xa, ya>>)

\* get_sine(train_sequence_length=L, predict_sequence_length=P, test_size, n_examples=n)
\* run with the generator in state s
SineFrame(L, P, ts, n, s) ==
    LET ex(i) == SineExample(RandomValue(RngAfter(s, i - 1)), L, P)
        x  == [i \in 1 .. n |-> ex(i).x]
        y  == [i \in 1 .. n |-> ex(i).y]
        ax == NpArray(x)
        ay == NpArray(y)
        base == [trace |-> <<"get_sine">>, draws |-> n, fetches |-> 0,
                 rng |-> RngAfter(s, n)]
    IN  IF ~CanIndex3(ax)
        THEN base @@ [result  |-> Raise("IndexError", <<"too many indices for array">>),
                      x_array |-> NoArray, y_array |-> NoArray]
        ELSE LET xa == FirstChannel(ax)
                 ya == FirstChannel(ay)
             IN  base @@ [result  |-> SineSplit(xa, ya, n, ts),
                          x_array |-> xa, y_array |-> ya]

(* -------------------------- get_air_passengers ------------------------- *)

\* the passenger count in row i (from 0) of the CSV resource; the file is
\* not part of the sources, a trend with a yearly season stands for it
RawValue(i) == 100 + 3 * i + 10 * (i % 12)

\* np.max / np.min of a column
ColumnMax(col) == CHOOSE m \in {col[i] : i \in 1 .. Len(col)} :
                      \A i \in 1 .. Len(col) : col[i] <= m
ColumnMin(col) == CHOOSE m \in {col[i] : i \in 1 .. Len(col)} :
                      \A i \in 1 .. Len(col) : col[i] >= m

\* v = df.iloc[:, 1:2].values; v = (v - np.max(v)) / (np.max(v) - np.min(v)):
\* shape (144, 1); a value is kept as num / den, with the row it came from
Series ==
    LET col == [i \in 1 .. NRows |-> RawValue(i - 1)]
        mx  == ColumnMax(col)
        mn  == ColumnMin(col)
    IN  [shape |-> <<NRows, 1>>,
         data  |-> [i \in 1 .. NRows |->
                      <<[row |-> i - 1, num |-> col[i] - mx, den |-> mx - mn]>>]]

\* mutant: the first predict_sequence_length rows trimmed instead of the
\* first train_sequence_length rows
XWindows_TrimPredict(v, L, P) ==
    LET x == [seq \in 1 .. L |-> Roll(v, seq)]
    IN  RowSliceReversed(Stack1(x), P, -P)

\* x after the first loop, stacked and trimmed
XWindows(v, L, P) ==
    LET x == [seq \in 1 .. L |-> Roll(v, seq)]
    IN  RowSliceReversed(Stack1(x), L, -P)

\* mutant: the target rolls start at 1 instead of 0
YWindows_FromOne(v, L, P) ==
    LET y == [k \in 1 .. P |-> Roll(v, -k)]
    IN  RowSlice(Stack1(y), L, -P)

\* y after the second loop, stacked and trimmed
YWindows(v, L, P) ==
    LET y == [k \in 1 .. P |-> Roll(v, -(k - 1))]
    IN  RowSlice(Stack1(y), L, -P)

\* the return statements of get_air_passengers
AirSplit(xa, ya, ts) ==
    IF HasSplit(ts)
    THEN LET slice == SplitIndex(xa.shape[1], ts)
         IN  Return("split", << <<RowsTo(xa, slice), RowsTo(ya, slice)>>,
                                <<RowsFrom(xa, slice), RowsFrom(ya, slice)>> >>)
    ELSE Return("pair", <<xa, ya>>)

\* the outcomes of pd.read_csv(air_passenger_url, nrows=144)
CsvOutcomes ==
    { [kind |-> "data", exc |-> "", msg |-> <<>>, ticker |-> "", rows |-> NRows],
      [kind |-> "raise", exc |-> "URLError", msg |-> <<"urlopen error">>,
       ticker |-> "", rows |-> 0] }

\* get_air_passengers(train_sequence_length=L, predict_sequence_length=P, test_size)
\* when read_csv ends as csv
AirFrame(L, P, ts, csv, s) ==
    LET base == [trace |-> <<"get_air_passengers">>, draws |-> 0, fetches |-> 1,
                 rng |-> s]
        stackError == Raise("ValueError", <<"need at least one array to stack">>)
    IN  IF csv.kind = "raise"
        THEN base @@ [result  |-> Raise(csv.exc, csv.msg),
                      x_array |-> NoArray, y_array |-> NoArray]
        ELSE IF L = 0
        THEN base @@ [result  |-> stackError,
                      x_array |-> NoArray, y_array |-> NoArray]
        ELSE IF P = 0
        THEN base @@ [result  |-> stackError,
                      x_array |-> XWindows(Series, L, P), y_array |-> NoArray]
        ELSE LET xa == XWindows(Series, L, P)
                 ya == YWindows(Series, L, P)
             IN  base @@ [result  |-> AirSplit(xa, ya, ts),
                          x_array |-> xa, y_array |-> ya]

(* ------------------------------- get_data ------------------------------ *)

\* mutant: only the lower end of the range asserted
TestSizeOk_LowerOnly(ts) == ts >= 0

\* assert (test_size >= 0) & (test_size <= 1)
TestSizeOk(ts) == (ts >= 0) /\ (ts <= TestDen)

\* get_data(name, train_length=L, predict_sequence_length=P, test_size)
DataFrame(name, L, P, ts, csv, s) ==
    LET idle == [trace |-> <<>>, draws |-> 0, fetches |-> 0, rng |-> s,
                 x_array |-> NoArray, y_array |-> NoArray]
        f == IF ~TestSizeOk(ts)
             THEN idle @@ [result |-> Raise("AssertionError",
                                        <<"test_size is the ratio of test dataset">>)]
             ELSE IF name = "sine"
             THEN SineFrame(L, P, ts, DefaultNExamples, s)
             ELSE IF name = "airpassengers"
             THEN AirFrame(L, P, ts, csv, s)
             ELSE idle @@ [result |-> Raise("ValueError",
                             <<"unsupported data of ", name,
                               " yet, try 'sine', 'airpassengers'">>)]
    IN  [f EXCEPT !.trace = <<"get_data">> \o f.trace]

(* ---------------------------- get_stock_data --------------------------- *)

\* what yf.download(ticker, ...) can do: data of some number of rows, or an
\* exception of a class derived from Exception
ProviderOutcomes(ticker) ==
    { [kind |-> "data", exc |-> "", msg |-> <<>>, ticker |-> ticker, rows |-> k] : k \in 0 .. MaxRows }
    \cup
    { [kind |-> "raise", exc |-> e, msg |-> m, ticker |-> ticker, rows |-> 0]
        : e \in {"ConnectionError", "KeyError"},
          m \in {<<"timed out">>, <<"rate limited">>} }

\* mutant: no check of data.empty
TryBody_NoEmptyCheck(ticker, out) ==
    IF out.kind = "raise" THEN Raise(out.exc, out.msg) ELSE Return("frame", out)

\* the body of the try block once yf.download has ended as out
TryBody(ticker, out) ==
    IF out.kind = "raise"
    THEN Raise(out.exc, out.msg)
    ELSE IF out.rows = 0
    THEN Raise("ValueError", <<"No data available for ticker: ", ticker>>)
    ELSE Return("frame", out)

\* except Exception as e: raise ValueError(f"Error retrieving stock data: {str(e)}")
Except(r) ==
    IF r.kind = "raise"
    THEN Raise("ValueError", <<"Error retrieving stock data: ">> \o r.msg)
    ELSE r

\* get_stock_data(ticker) when yf.download ends as out
StockResult(ticker, out) == Except(TryBody(ticker, out))

(* ------------------------------- actions ------------------------------- *)

NoEnv == [kind |-> "none", exc |-> "", msg |-> <<>>, ticker |-> "", rows |-> 0]

\* no call in progress, nothing returned yet
NoCall == [fn |-> "", name |-> "", L |-> 0, P |-> 0, ts |-> 0, n |-> 0,
           ticker |-> "", env |-> NoEnv]

\* read_csv is reached only on the air-passenger path
DataCsv(name) == IF name = "airpassengers" THEN CsvOutcomes ELSE {NoEnv}

TypeOK ==
    /\ pc \in {"ready", "done"}
    /\ rng \in 0 .. RandMod - 1
    /\ result.kind \in {"none", "return", "raise"}
    /\ draws \in Nat /\ fetches \in 0 .. 1 /\ downloads \in 0 .. 1

Init ==
    /\ pc = "ready"
    /\ rng \in 0 .. RandMod - 1
    /\ call = NoCall
    /\ trace = <<>>
    /\ x_array = NoArray
    /\ y_array = NoArray
    /\ result = NoResult
    /\ draws = 0
    /\ fetches = 0
    /\ downloads = 0

\* the state a generator frame f leaves behind
Ends(f) ==
    /\ pc' = "done"
    /\ rng' = f.rng
    /\ trace' = f.trace
    /\ x_array' = f.x_array
    /\ y_array' = f.y_array
    /\ result' = f.result
    /\ draws' = f.draws
    /\ fetches' = f.fetches
    /\ downloads' = 0

GetSine(L, P, ts, n) ==
    /\ pc = "ready"
    /\ call' = [fn |-> "get_sine", name |-> "", L |-> L, P |-> P, ts |-> ts,
                n |-> n, ticker |-> "", env |-> NoEnv]
    /\ Ends(SineFrame(L, P, ts, n, rng))

GetAirPassengers(L, P, ts, csv) ==
    /\ pc = "ready"
    /\ call' = [fn |-> "get_air_passengers", name |-> "", L |-> L, P |-> P,
                ts |-> ts, n |-> 0, ticker |-> "", env |-> csv]
    /\ Ends(AirFrame(L, P, ts, csv, rng))

GetData(name, L, P, ts, csv) ==
    /\ pc = "ready"
    /\ LET f == DataFrame(name, L, P, ts, csv, rng)
       IN  /\ call' = [fn |-> "get_data", name |-> name, L |-> L, P |-> P,
                       ts |-> ts, n |-> DefaultNExamples, ticker |-> "",
                       env |-> IF f.fetches = 1 THEN csv ELSE NoEnv]
           /\ Ends(f)

\* mutant: the fetcher seeds the process-wide generator
GetStockData_Seeded(ticker, out) ==
    /\ pc = "ready"
    /\ pc' = "done"
    /\ call' = [fn |-> "get_stock_data", name |-> "", L |-> 0, P |-> 0, ts |-> 0,
                n |-> 0, ticker |-> ticker, env |-> out]
    /\ trace' = <<"get_stock_data">>
    /\ result' = StockResult(ticker, out)
    /\ downloads' = 1
    /\ rng' = 0
    /\ UNCHANGED <<x_array, y_array, draws, fetches>>

GetStockData(ticker, out) ==
    /\ pc = "ready"
    /\ pc' = "done"
    /\ call' = [fn |-> "get_stock_data", name |-> "", L |-> 0, P |-> 0, ts |-> 0,
                n |-> 0, ticker |-> ticker, env |-> out]
    /\ trace' = <<"get_stock_data">>
    /\ result' = StockResult(ticker, out)
    /\ downloads' = 1
    /\ UNCHANGED <<rng, x_array, y_array, draws, fetches>>

\* the call is over: its locals and its result are the caller's, nothing of
\* them stays in this module; the generator keeps its state
Resume ==
    /\ pc = "done"
    /\ pc' = "ready"
    /\ call' = NoCall
    /\ trace' = <<>>
    /\ x_array' = NoArray
    /\ y_array' = NoArray
    /\ result' = NoResult
    /\ draws' = 0
    /\ fetches' = 0
    /\ downloads' = 0
    /\ UNCHANGED rng

Next ==
    \/ \E L \in Lengths, P \in Lengths, ts \in TestSizes, n \in 0 .. MaxExamples :
          GetSine(L, P, ts, n)
    \/ \E L \in Lengths \cup LongLengths, P \in Lengths, ts \in TestSizes,
          csv \in CsvOutcomes :
          GetAirPassengers(L, P, ts, csv)
    \/ \E name \in Names, L \in Lengths, P \in Lengths, ts \in TestSizes :
          \E csv \in DataCsv(name) :
              GetData(name, L, P, ts, csv)
    \/ \E ticker \in Tickers : \E out \in ProviderOutcomes(ticker) :
          GetStockData(ticker, out)
    \/ Resume

Spec == Init /\ [][Next]_vars

(* ------------------------------- claims -------------------------------- *)

\* fn was entered during the call
Invoked(fn) == \E i \in 1 .. Len(trace) : trace[i] = fn

\* a generator was entered and returned
Generated ==
    /\ pc = "done"
    /\ result.kind = "return"
    /\ Invoked("get_sine") \/ Invoked("get_air_passengers")

\* the sequence part occurs in msg as a contiguous run
Carries(msg, part) ==
    \E i \in 1 .. Len(msg) : SubSeq(msg, i, i + Len(part) - 1) = part

\* C1: for get_sine and get_air_passengers and 0 < test_size <= 1, the result
\* is ((x_train, y_train), (x_valid, y_valid)) where the train part is the
\* first k of the n generated examples and the validation part the remaining
\* n - k in their order, k = floor(n * (1 - test_size)); x and y are cut at
\* the same index and the two counts add up to n.
C1_SplitIsPrefixAndSuffix ==
    (Generated /\ call.ts > 0 /\ call.ts <= TestDen) =>
        LET n  == Len(x_array.data)
            k  == (n * (TestDen - call.ts)) \div TestDen
            tr == result.value[1]
            va == result.value[2]
        IN  /\ result.form = "split"
            /\ Len(y_array.data) = n
            /\ tr[1].data = SubSeq(x_array.data, 1, k)
            /\ tr[2].data = SubSeq(y_array.data, 1, k)
            /\ va[1].data = SubSeq(x_array.data, k + 1, n)
            /\ va[2].data = SubSeq(y_array.data, k + 1, n)
            /\ tr[1].shape[1] = k /\ tr[2].shape[1] = k
            /\ va[1].shape[1] = n - k /\ va[2].shape[1] = n - k
            /\ Len(tr[1].data) + Len(va[1].data) = n

\* a split of the air-passenger windows with both parts non-empty and of
\* different sizes
C1_Witness ==
    /\ Generated /\ Invoked("get_air_passengers")
    /\ call.ts > 0 /\ call.ts < TestDen
    /\ result.form = "split"
    /\ Len(result.value[1][1].data) > Len(result.value[2][1].data)
    /\ Len(result.value[2][1].data) > 0

\* C2: for get_sine and get_air_passengers (also through get_data), the
\* result at test_size = 0 is the single pair (x, y) of all generated
\* examples, and at test_size > 0 it is the nested train/validation form.
C2_FormFollowsTestSize ==
    Generated =>
        /\ (call.ts = 0 => result.form = "pair" /\ result.value = <<x_array, y_array>>)
        /\ (call.ts > 0 => result.form = "split" /\ Len(result.value) = 2
                           /\ Len(result.value[1]) = 2 /\ Len(result.value[2]) = 2)

\* get_data("sine", test_size=0) returned all 100 examples as one pair
C2_Witness ==
    /\ Generated /\ call.fn = "get_data" /\ Invoked("get_sine")
    /\ call.ts = 0 /\ call.L > 0
    /\ result.form = "pair"
    /\ Len(result.value[1].data) = DefaultNExamples

\* C3: get_sine with n_examples = 0 returns empty arrays and raises nothing,
\* for every train_sequence_length, predict_sequence_length and test_size in
\* [0, 1].
C3_ZeroExamplesReturnEmpty ==
    (pc = "done" /\ call.fn = "get_sine" /\ call.n = 0
        /\ call.ts >= 0 /\ call.ts <= TestDen) =>
        /\ result.kind = "return"
        /\ x_array.data = <<>>
        /\ y_array.data = <<>>

\* get_air_passengers got the series and lengths that leave room for a window
AirCase ==
    /\ pc = "done"
    /\ Invoked("get_air_passengers")
    /\ call.env.kind = "data"
    /\ call.L >= 1 /\ call.P >= 1 /\ call.L + call.P < NRows

\* C4: for get_air_passengers over the 144-row series v, L >= 1, P >= 1 and
\* L + P < 144: x and y have the same number of rows before the split, and
\* every x window is v[t-L], ..., v[t-1] in this order for some t with all
\* indices in 0..143: no window holds a value np.roll wrapped around.
C4_XWindowsInsideSeries ==
    AirCase =>
        /\ result.kind = "return"
        /\ x_array.shape[1] = y_array.shape[1]
        /\ Len(x_array.data) = Len(y_array.data)
        /\ \A r \in 1 .. Len(x_array.data) :
              /\ Len(x_array.data[r]) = call.L
              /\ \E t \in call.L .. NRows :
                    \A j \in 1 .. call.L :
                        /\ Len(x_array.data[r][j]) = 1
                        /\ x_array.data[r][j][1].row = t - call.L + j - 1

\* the longest input window that still leaves one example
C4_Witness ==
    /\ AirCase
    /\ call.L = NRows - 2 /\ call.P = 1
    /\ Len(x_array.data) = 1
    /\ x_array.data[1][1][1].row = 0

\* C5: for get_air_passengers, the y window of every example is
\* v[t], ..., v[t+P-1] where v[t-1] is the last value of the paired x window:
\* the P series values right after the input window, none wrapped around the
\* end of the series.
C5_TargetFollowsInput ==
    AirCase =>
        \A r \in 1 .. Len(y_array.data) :
            LET t == x_array.data[r][call.L][1].row + 1
            IN  /\ Len(y_array.data[r]) = call.P
                /\ t + call.P - 1 <= NRows - 1
                /\ \A j \in 1 .. call.P :
                      /\ Len(y_array.data[r][j]) = 1
                      /\ y_array.data[r][j][1].row = t + j - 1

\* several examples with input and target windows longer than one step
C5_Witness ==
    /\ AirCase
    /\ call.L >= 2 /\ call.P >= 2 /\ call.L # call.P
    /\ Len(y_array.data) > 1
    /\ result.kind = "return"

\* C6: for get_sine with L >= 1, P >= 1 and n >= 1, x has shape (n, L, 1) and
\* y has shape (n, P, 1) before the split: only the first channel is kept and
\* every example has L input steps followed by P output steps.
C6_SineShapes ==
    (pc = "done" /\ Invoked("get_sine")
        /\ call.L >= 1 /\ call.P >= 1 /\ call.n >= 1) =>
        /\ result.kind = "return"
        /\ x_array.shape = <<call.n, call.L, 1>>
        /\ y_array.shape = <<call.n, call.P, 1>>
        /\ Len(x_array.data) = call.n
        /\ Len(y_array.data) = call.n
        /\ \A i \in 1 .. call.n :
              /\ Len(x_array.data[i]) = call.L
              /\ Len(y_array.data[i]) = call.P
              /\ \A j \in 1 .. call.L :
                    /\ Len(x_array.data[i][j]) = 1
                    /\ x_array.data[i][j][1].ch = "sin"
                    /\ x_array.data[i][j][1].step = j - 1
              /\ \A j \in 1 .. call.P :
                    /\ Len(y_array.data[i][j]) = 1
                    /\ y_array.data[i][j][1].ch = "sin"
                    /\ y_array.data[i][j][1].step = call.L + j - 1

\* the case of the specification: n_examples = 5, with L # P
C6_Witness ==
    /\ pc = "done" /\ call.fn = "get_sine"
    /\ call.n = 5 /\ call.L = 3 /\ call.P = 2
    /\ x_array.shape = <<5, 3, 1>>

\* no generator was entered: no random number drawn, no CSV read
NoGenerator == trace = <<"get_data">> /\ draws = 0 /\ fetches = 0

\* C7: get_data rejects invalid arguments before any generator is entered:
\* a test_size outside [0, 1] raises (the assertion fails) whatever the name,
\* and with test_size in range a name other than "sine" and "airpassengers"
\* raises ValueError.
C7_InvalidArgumentsRejected ==
    (pc = "done" /\ call.fn = "get_data") =>
        /\ (call.ts < 0 \/ call.ts > TestDen) =>
              /\ result.kind = "raise"
              /\ result.exc = "AssertionError"
              /\ NoGenerator
        /\ (call.ts >= 0 /\ call.ts <= TestDen
                /\ call.name \notin {"sine", "airpassengers"}) =>
              /\ result.kind = "raise"
              /\ result.exc = "ValueError"
              /\ Carries(result.msg, <<call.name>>)
              /\ NoGenerator

\* get_data("sine", test_size > 1) was rejected
C7_Witness ==
    /\ pc = "done" /\ call.fn = "get_data"
    /\ call.name = "sine" /\ call.ts > TestDen
    /\ result.kind = "raise"

\* C8: get_stock_data returns the provider's non-empty result unchanged or
\* fails with ValueError: on an empty result the error carries the ticker, on
\* an exception of the provider it carries that exception's message; an empty
\* result is never returned and the provider is called exactly once.
C8_StockResultOrValueError ==
    (pc = "done" /\ call.fn = "get_stock_data") =>
        /\ downloads = 1
        /\ \/ result.kind = "return" /\ result.value = call.env
              /\ call.env.kind = "data" /\ call.env.rows > 0
           \/ result.kind = "raise" /\ result.exc = "ValueError"
        /\ (call.env.kind = "data" /\ call.env.rows > 0) => result.kind = "return"
        /\ (call.env.kind = "data" /\ call.env.rows = 0) =>
              result.kind = "raise" /\ Carries(result.msg, <<call.ticker>>)
        /\ call.env.kind = "raise" =>
              result.kind = "raise" /\ Carries(result.msg, call.env.msg)

\* the provider returned no rows and the caller got the wrapped error
C8_Witness ==
    /\ pc = "done" /\ call.fn = "get_stock_data"
    /\ call.env.kind = "data" /\ call.env.rows = 0
    /\ result.kind = "raise"
    /\ result.msg[1] = "Error retrieving stock data: "

\* the result of call c made with the generator in state s
ResultIn(c, s) ==
    IF c.fn = "get_air_passengers" THEN AirFrame(c.L, c.P, c.ts, c.env, s).result
    ELSE IF c.fn = "get_data" THEN DataFrame(c.name, c.L, c.P, c.ts, c.env, s).result
    ELSE IF c.fn = "get_sine" THEN SineFrame(c.L, c.P, c.ts, c.n, s).result
    ELSE StockResult(c.ticker, c.env)

C10_NormalisedIntoUnitInterval ==
    (AirCase /\ result.kind = "return") =>
        /\ \A r \in 1 .. Len(x_array.data) : \A j \in 1 .. call.L :
              LET e == x_array.data[r][j][1]
              IN  e.den > 0 /\ 0 <= e.num /\ e.num <= e.den
        /\ \A r \in 1 .. Len(y_array.data) : \A j \in 1 .. call.P :
              LET e == y_array.data[r][j][1]
              IN  e.den > 0 /\ 0 <= e.num /\ e.num <= e.den

====
